---- MODULE Spec2Model ----
(***************************************************************************)
(* The HackerOne analytics pipeline (src/process_data.py): the field       *)
(* normalizer and decoder (clean_json_string, parse_json_column), the      *)
(* field extractor, the four group-by aggregations and the table writer;   *)
(* the dashboard that loads the tables (src/dashboards/streamlit_app.py)   *)
(* and the digest writer (src/generate_insights.py).                       *)
(*                                                                         *)
(* Python values are tagged records, one field name per Python type, so    *)
(* that values of different types are never compared field by field:       *)
(*   None -> [t |-> "null"]          NaN (absent cell) -> [t |-> "nan"]    *)
(*   str  -> [t |-> "str", s |-> _]  bool -> [t |-> "bool", b |-> _]       *)
(*   int  -> [t |-> "num", n |-> _]  (n is the numeral's text)             *)
(*   dict -> [t |-> "dict", kv |-> sequence of [k |-> key, val |-> value]] *)
(*   list -> [t |-> "list", xs |-> sequence of values]                     *)
(* The text of a CSV cell is [t |-> "text", toks |-> sequence of tokens];  *)
(* a token is a punctuation character, a blank, a newline, or a run of     *)
(* letters or digits.  The texts are tokenised so that every occurrence of *)
(* None, True, False, array(, dtype=object and of a quote is a token of    *)
(* its own: a substring replacement of the code is then a replacement of   *)
(* tokens, and the concatenation of the tokens is the text.                *)
(***************************************************************************)
EXTENDS Integers, Sequences, FiniteSets, TLC

Null == [t |-> "null"]
NaN == [t |-> "nan"]
Str(s) == [t |-> "str", s |-> s]
Bool(b) == [t |-> "bool", b |-> b]
Num(n) == [t |-> "num", n |-> n]
Dict(kv) == [t |-> "dict", kv |-> kv]
List(xs) == [t |-> "list", xs |-> xs]
Text(toks) == [t |-> "text", toks |-> toks]
EmptyDict == Dict(<<>>)

\* pd.isna(x) on a scalar: true of NaN and of None
isna(x) == x.t \in {"nan", "null"}
\* isinstance(x, str), for a cell of the data frame
IsCellStr(x) == x.t = "text"

Min(S) == CHOOSE x \in S : \A y \in S : x <= y
Max(S) == CHOOSE x \in S : \A y \in S : x >= y

RECURSIVE Concat(_)
\* ''.join(toks): the text a token sequence stands for
Concat(toks) == IF toks = <<>> THEN "" ELSE Head(toks) \o Concat(Tail(toks))

(***************************************************************************)
(* clean_json_string (src/process_data.py:17-34)                           *)
(***************************************************************************)
MatchAt(toks, i, pat) ==
  /\ i + Len(pat) - 1 <= Len(toks)
  /\ \A k \in 1..Len(pat) : toks[i + k - 1] = pat[k]

ArrayOpen == <<"array", "(", "[">>
ArrayClose == <<"]", ",", " ", "dtype=object", ")">>

RECURSIVE SubEmptyArrayFrom(_, _)
\* re.sub(r'array\(\[\], dtype=object\)', '[]', s), from token i on: the
\* matches from left to right, none overlapping the one before
SubEmptyArrayFrom(toks, i) ==
  LET starts == {j \in i..Len(toks) : MatchAt(toks, j, ArrayOpen \o ArrayClose)}
  IN IF starts = {} THEN SubSeq(toks, i, Len(toks))
     ELSE SubSeq(toks, i, Min(starts) - 1) \o <<"[", "]">>
          \o SubEmptyArrayFrom(toks, Min(starts) + Len(ArrayOpen \o ArrayClose))

\* where a match of array\(\[.*?\], dtype=object\) that starts at token i
\* can end: the lazy .*? takes the first of them, and . matches no newline
ArrayEnds(toks, i) ==
  {j \in (i + 3)..Len(toks) :
     /\ MatchAt(toks, j, ArrayClose)
     /\ \A k \in (i + 3)..(j - 1) : toks[k] # "\n"}

RECURSIVE SubArrayFrom(_, _)
\* re.sub(r'array\(\[.*?\], dtype=object\)', '[]', s), from token i on
SubArrayFrom(toks, i) ==
  LET starts == {j \in i..Len(toks) :
                   MatchAt(toks, j, ArrayOpen) /\ ArrayEnds(toks, j) # {}}
  IN IF starts = {} THEN SubSeq(toks, i, Len(toks))
     ELSE SubSeq(toks, i, Min(starts) - 1) \o <<"[", "]">>
          \o SubArrayFrom(toks, Min(ArrayEnds(toks, Min(starts))) + Len(ArrayClose))

\* s.replace(old, new) where every occurrence of old is one token
ReplaceToken(toks, old, new) ==
  [k \in 1..Len(toks) |-> IF toks[k] = old THEN new ELSE toks[k]]

\* lines 22-32: the substitutions, in the order of the code
CleanText(toks) ==
  LET s1 == SubEmptyArrayFrom(toks, 1)
      s2 == SubArrayFrom(s1, 1)
      s3 == ReplaceToken(s2, "None", "null")
      s4 == ReplaceToken(s3, "True", "true")
      s5 == ReplaceToken(s4, "False", "false")
  IN ReplaceToken(s5, "'", "\"")

\* the guard of line 19 without its isinstance test: the substitutions
\* then fail on a value that is not a string
clean_json_string_NullGuardOnly(s) ==
  IF isna(s) THEN <<"{", "}">>
  ELSE IF IsCellStr(s) THEN CleanText(s.toks) ELSE <<"TypeError">>

clean_json_string(s) ==
  IF isna(s) \/ ~IsCellStr(s) THEN <<"{", "}">> ELSE CleanText(s.toks)

(***************************************************************************)
(* json.loads (line 47) and ast.literal_eval (line 51) over tokens.  One   *)
(* recursive-descent decoder, d = "json" or d = "python": the dialects     *)
(* differ in the quotes that open a string, in the words of the three      *)
(* literals, in the keys an object may have and in the trailing comma.     *)
(***************************************************************************)
Ws == {" ", "\n"}
NumTokens == {"0", "1", "2", "3", "60", "61"}
Quotes(d) == IF d = "json" THEN {"\""} ELSE {"'", "\""}
NullWord(d) == IF d = "json" THEN "null" ELSE "None"
TrueWord(d) == IF d = "json" THEN "true" ELSE "True"
FalseWord(d) == IF d = "json" THEN "false" ELSE "False"

Fail == [ok |-> FALSE, val |-> Null, next |-> 0]
Ok(v, n) == [ok |-> TRUE, val |-> v, next |-> n]
Tok(toks, i) == IF i \in 1..Len(toks) THEN toks[i] ELSE "<eof>"
SkipWs(toks, i) ==
  LET rest == {j \in i..Len(toks) : toks[j] \notin Ws}
  IN IF rest = {} THEN Len(toks) + 1 ELSE Min(rest)

\* a string literal opened by the quote q at token i: it runs to the next q
\* (the texts hold no backslash) and may not hold a raw newline
ParseString(toks, i, q) ==
  LET closes == {j \in (i + 1)..Len(toks) : toks[j] = q}
  IN IF closes = {} THEN Fail
     ELSE LET j == Min(closes)
          IN IF \E k \in (i + 1)..(j - 1) : toks[k] = "\n" THEN Fail
             ELSE Ok(Str(Concat(SubSeq(toks, i + 1, j - 1))), j + 1)

RECURSIVE ParseValue(_, _, _)
RECURSIVE ParseMembers(_, _, _, _)
RECURSIVE ParseElements(_, _, _, _)

\* the value that starts at token i (i is past the white space)
ParseValue(toks, i, d) ==
  LET c == Tok(toks, i)
  IN IF c = "{" THEN ParseMembers(toks, SkipWs(toks, i + 1), d, <<>>)
     ELSE IF c = "[" THEN ParseElements(toks, SkipWs(toks, i + 1), d, <<>>)
     ELSE IF c \in Quotes(d) THEN ParseString(toks, i, c)
     ELSE IF c \in NumTokens THEN Ok(Num(c), i + 1)
     ELSE IF c = NullWord(d) THEN Ok(Null, i + 1)
     ELSE IF c = TrueWord(d) THEN Ok(Bool(TRUE), i + 1)
     ELSE IF c = FalseWord(d) THEN Ok(Bool(FALSE), i + 1)
     ELSE Fail

\* the members of an object; i is the first token after "{" or after ","
ParseMembers(toks, i, d, acc) ==
  IF Tok(toks, i) = "}"
  THEN IF acc = <<>> \/ d = "python" THEN Ok(Dict(acc), i + 1) ELSE Fail
  ELSE LET key == IF d = "json" /\ Tok(toks, i) \notin Quotes(d) THEN Fail
                  ELSE ParseValue(toks, i, d)
       IN IF ~key.ok \/ key.val.t \in {"dict", "list"} THEN Fail
          ELSE LET colon == SkipWs(toks, key.next)
               IN IF Tok(toks, colon) # ":" THEN Fail
                  ELSE LET v == ParseValue(toks, SkipWs(toks, colon + 1), d)
                       IN IF ~v.ok THEN Fail
                          ELSE LET sep == SkipWs(toks, v.next)
                                   acc2 == Append(acc, [k |-> key.val, val |-> v.val])
                               IN IF Tok(toks, sep) = "}" THEN Ok(Dict(acc2), sep + 1)
                                  ELSE IF Tok(toks, sep) = ","
                                       THEN ParseMembers(toks, SkipWs(toks, sep + 1), d, acc2)
                                       ELSE Fail

\* the elements of a list; i is the first token after "[" or after ","
ParseElements(toks, i, d, acc) ==
  IF Tok(toks, i) = "]"
  THEN IF acc = <<>> \/ d = "python" THEN Ok(List(acc), i + 1) ELSE Fail
  ELSE LET v == ParseValue(toks, i, d)
       IN IF ~v.ok THEN Fail
          ELSE LET sep == SkipWs(toks, v.next)
                   acc2 == Append(acc, v.val)
               IN IF Tok(toks, sep) = "]" THEN Ok(List(acc2), sep + 1)
                  ELSE IF Tok(toks, sep) = ","
                       THEN ParseElements(toks, SkipWs(toks, sep + 1), d, acc2)
                       ELSE Fail

\* the whole text is one value: anything after it but white space is an error
Decode(toks, d) ==
  LET r == ParseValue(toks, SkipWs(toks, 1), d)
  IN IF r.ok /\ SkipWs(toks, r.next) > Len(toks) THEN r ELSE Fail

json_loads(toks) == Decode(toks, "json")
literal_eval(toks) == Decode(toks, "python")

(***************************************************************************)
(* parse_json_column (src/process_data.py:36-56), for one item of a column *)
(***************************************************************************)
\* the normalized text of line 46 handed to the second decoder as well
LiteralEvalArg_Cleaned(item) == clean_json_string(item)

\* line 51: ast.literal_eval(item), the text of the cell as it was read
LiteralEvalArg(item) == item.toks

\* parse_json_column without the inner except of lines 52-53: the failure of
\* literal_eval leaves the loop
parse_item_NoInnerExcept(item) ==
  IF isna(item) THEN EmptyDict
  ELSE IF IsCellStr(item)
       THEN LET j == json_loads(clean_json_string(item))
            IN IF j.ok THEN j.val
               ELSE LET l == literal_eval(LiteralEvalArg(item))
                    IN IF l.ok THEN l.val ELSE [t |-> "raise", exc |-> "ValueError"]
       ELSE item

parse_item(item) ==
  IF isna(item) THEN EmptyDict
  ELSE IF IsCellStr(item)
       THEN LET j == json_loads(clean_json_string(item))
            IN IF j.ok THEN j.val
               ELSE LET l == literal_eval(LiteralEvalArg(item))
                    IN IF l.ok THEN l.val ELSE EmptyDict
       ELSE item

parse_json_column(series) == [i \in 1..Len(series) |-> parse_item(series[i])]

(***************************************************************************)
(* The field extractor (src/process_data.py:79-113)                        *)
(***************************************************************************)
IsDict(v) == v.t = "dict"
IsList(v) == v.t = "list"
EmptyStr == Str("")
False == Bool(FALSE)
\* raised by an attribute lookup on a value that has no such attribute
AttributeError == [t |-> "raise", exc |-> "AttributeError"]
Raised(v) == v.t = "raise"

\* dict.get(key, default): of equal keys the last one decoded wins
Get(d, key, default) ==
  LET hits == {j \in 1..Len(d.kv) : d.kv[j].k = Str(key)}
  IN IF hits = {} THEN default ELSE d.kv[Max(hits)].val

\* lambda x: x.get(key, default) if isinstance(x, dict) else default
GetField(v, key, default) == IF IsDict(v) THEN Get(v, key, default) ELSE default

\* team.get(...): an attribute lookup, which only a dict answers
TeamFields(team) ==
  IF ~IsDict(team) THEN AttributeError
  ELSE [t |-> "team",
        handle |-> Get(team, "handle", EmptyStr),
        name |-> IF IsDict(Get(team, "profile", Null))
                 THEN Get(Get(team, "profile", EmptyDict), "name", EmptyStr)
                 ELSE EmptyStr,
        offers_bounties |-> Get(team, "offers_bounties", False)]

TeamDefaults ==
  [t |-> "team", handle |-> EmptyStr, name |-> EmptyStr, offers_bounties |-> False]

extract_team_info(team_data) ==
  IF IsDict(team_data) THEN TeamFields(team_data)
  ELSE IF IsList(team_data) /\ Len(team_data.xs) > 0 THEN TeamFields(team_data.xs[1])
  ELSE TeamDefaults

(***************************************************************************)
(* The texts of the cells the properties draw from: Python reprs and JSON. *)
(***************************************************************************)
RECURSIVE JoinComma(_)
JoinComma(parts) ==
  IF parts = <<>> THEN <<>>
  ELSE IF Len(parts) = 1 THEN parts[1]
  ELSE parts[1] \o <<",", " ">> \o JoinComma(Tail(parts))

PyStr(words) == <<"'">> \o words \o <<"'">>
DqStr(words) == <<"\"">> \o words \o <<"\"">>
PyKV(key, v) == PyStr(<<key>>) \o <<":", " ">> \o v
JsKV(key, v) == DqStr(<<key>>) \o <<":", " ">> \o v
Obj(members) == <<"{">> \o JoinComma(members) \o <<"}">>
Lst(elems) == <<"[">> \o JoinComma(elems) \o <<"]">>
NpArray(elems) == <<"array", "(">> \o Lst(elems) \o <<",", " ", "dtype=object", ")">>

\* the repr of a team: a handle, a profile with a name, offers_bounties
TeamRepr(handle, name, offers) ==
  Obj(<<PyKV("handle", handle), PyKV("profile", Obj(<<PyKV("name", name)>>)),
        PyKV("offers_bounties", offers)>>)

(***************************************************************************)
(* The data frame.  A cell of a column other than the four JSON columns is *)
(* a Python value: PyInt(i) an integer, Bool(b), Str(s), NaN when the cell   *)
(* is empty, Ts(n) a timestamp text that pandas parses, n = yyyymmdd.      *)
(***************************************************************************)
PyInt(i) == [t |-> "int", i |-> i]
Ts(n) == [t |-> "ts", n |-> n]
NaT == [t |-> "nat"]
Period(ym) == [t |-> "period", ym |-> ym]
\* pd.isna / the null test of groupby, count, first, mode, nunique, min, max
IsNull(v) == v.t \in {"nan", "null", "nat"}

\* the order of Python strings (by code point) on the strings of the model
StrOrder ==
  <<"", "ACME", "Acme Corp", "Globex", "SQLi", "URL", "XSS", "acme", "alice",
    "bob", "example.com", "globex", "high", "informative", "low", "resolved",
    "unknown">>
StrRank(s) == CHOOSE i \in 1..Len(StrOrder) : StrOrder[i] = s

\* lines 79-81: the reporter columns of one row
ReporterFields(x) ==
  [reporter_username |-> GetField(x, "username", EmptyStr),
   reporter_verified |-> GetField(x, "verified", False),
   reporter_cleared |-> GetField(x, "cleared", False)]

\* lines 102-104: the team columns, from the result of extract_team_info
TeamColumns(info) ==
  [team_handle |-> info.handle, team_name |-> info.name,
   team_offers_bounties |-> info.offers_bounties]

\* lines 107-108
WeaknessFields(x) ==
  [weakness_id |-> GetField(x, "id", EmptyStr),
   weakness_name |-> GetField(x, "name", EmptyStr)]

\* lines 111-113
ScopeFields(x) ==
  [scope_asset_type |-> GetField(x, "asset_type", EmptyStr),
   scope_max_severity |-> GetField(x, "max_severity", EmptyStr),
   scope_asset_identifier |-> GetField(x, "asset_identifier", EmptyStr)]

\* lines 68-71: the four *_parsed columns
ParsedColumns(df) ==
  LET rep == parse_json_column([i \in 1..Len(df) |-> df[i].reporter])
      team == parse_json_column([i \in 1..Len(df) |-> df[i].team])
      weak == parse_json_column([i \in 1..Len(df) |-> df[i].weakness])
      scope == parse_json_column([i \in 1..Len(df) |-> df[i].structured_scope])
  IN [i \in 1..Len(df) |->
        df[i] @@ [reporter_parsed |-> rep[i], team_parsed |-> team[i],
                  weakness_parsed |-> weak[i], structured_scope_parsed |-> scope[i]]]

\* line 101: team_info, one result (or exception) per row
TeamInfo(df) == [i \in 1..Len(df) |-> extract_team_info(df[i].team_parsed)]

\* lines 79-113 when no row raises
ExtractedColumns(df) ==
  [i \in 1..Len(df) |->
     df[i] @@ ReporterFields(df[i].reporter_parsed)
           @@ TeamColumns(TeamInfo(df)[i])
           @@ WeaknessFields(df[i].weakness_parsed)
           @@ ScopeFields(df[i].structured_scope_parsed)]

\* pd.to_datetime(x, errors='coerce')
to_datetime(x) == IF x.t = "ts" THEN x ELSE NaT

\* lines 119-125 (disclosed_at feeds no table and is left out)
DateColumns(df) ==
  [i \in 1..Len(df) |->
     LET c == to_datetime(df[i].created_at)
     IN [df[i] EXCEPT !.created_at = c]
        @@ [year |-> IF IsNull(c) THEN NaN ELSE PyInt(c.n \div 10000),
            month |-> IF IsNull(c) THEN NaN ELSE PyInt((c.n \div 100) % 100),
            year_month |-> IF IsNull(c) THEN NaT ELSE Period(c.n \div 100)]]

(***************************************************************************)
(* The aggregator (src/process_data.py:131-187)                            *)
(***************************************************************************)
\* the elements of S in ascending order of the strict total order Less
SortSet(S, Less(_, _)) ==
  LET pos(a) == 1 + Cardinality({b \in S : Less(b, a)})
  IN [p \in 1..Cardinality(S) |-> CHOOSE a \in S : pos(a) = p]

\* a groupby that takes the empty string for a missing key as well
GroupKeys_EmptyKeyDropped(df, col) ==
  SortSet({df[i][col] : i \in {j \in 1..Len(df) :
                                 ~IsNull(df[j][col]) /\ df[j][col] # Str("")}},
          LAMBDA a, b : StrRank(a.s) < StrRank(b.s))
\* groupby(col): the keys, without the null ones, in ascending order
GroupKeys(df, col) ==
  SortSet({df[i][col] : i \in {j \in 1..Len(df) : ~IsNull(df[j][col])}},
          LAMBDA a, b : StrRank(a.s) < StrRank(b.s))
\* a grouping that puts the rows of a null key into every group
Group_NullKeysKept(df, col, key) ==
  SelectSeq(df, LAMBDA r : r[col] = key \/ IsNull(r[col]))

\* the rows of one group, in the order of the data frame
Group(df, col, key) == SelectSeq(df, LAMBDA r : r[col] = key)

\* 'count': the non-null values
Count(rows, col) == Cardinality({i \in 1..Len(rows) : ~IsNull(rows[i][col])})
\* 'sum' of a column of booleans
SumBool(rows, col) == Cardinality({i \in 1..Len(rows) : rows[i][col] = Bool(TRUE)})
RECURSIVE SumInt(_, _)
SumInt(rows, col) ==
  IF rows = <<>> THEN 0
  ELSE (IF IsNull(Head(rows)[col]) THEN 0 ELSE Head(rows)[col].i) + SumInt(Tail(rows), col)
\* 'mean', as the exact fraction sum / n; NaN when no value is there
Mean(rows, col) ==
  IF Count(rows, col) = 0 THEN NaN
  ELSE [t |-> "frac", sum |-> SumInt(rows, col), n |-> Count(rows, col)]
\* 'first': the first value that is not null
First(rows, col) ==
  LET ok == {i \in 1..Len(rows) : ~IsNull(rows[i][col])}
  IN IF ok = {} THEN NaN ELSE rows[Min(ok)][col]
\* 'min' and 'max' of the timestamps
MinTs(rows, col) ==
  LET ok == {rows[i][col].n : i \in {j \in 1..Len(rows) : ~IsNull(rows[j][col])}}
  IN IF ok = {} THEN NaT ELSE Ts(Min(ok))
MaxTs(rows, col) ==
  LET ok == {rows[i][col].n : i \in {j \in 1..Len(rows) : ~IsNull(rows[j][col])}}
  IN IF ok = {} THEN NaT ELSE Ts(Max(ok))
\* 'nunique'
NUnique(rows, col) ==
  Cardinality({rows[i][col] : i \in {j \in 1..Len(rows) : ~IsNull(rows[j][col])}})
\* a count of the reports that were not closed as informative
CountResolved_NotInformative(rows) ==
  Cardinality({i \in 1..Len(rows) : rows[i].substate # Str("informative")})
\* lambda x: (x == 'resolved').sum()
CountResolved(rows) ==
  Cardinality({i \in 1..Len(rows) : rows[i].substate = Str("resolved")})

\* the most frequent non-null values in the order of their first occurrence
ModeValues_InputOrder(rows, col) ==
  LET ok == {j \in 1..Len(rows) : ~IsNull(rows[j][col])}
      vals == {rows[i][col] : i \in ok}
      freq(v) == Cardinality({i \in 1..Len(rows) : rows[i][col] = v})
      first(v) == Min({i \in ok : rows[i][col] = v})
  IN SortSet({v \in vals : \A w \in vals : freq(w) <= freq(v)},
             LAMBDA a, b : first(a) < first(b))

\* x.mode(): the most frequent non-null values, sorted
ModeValues(rows, col) ==
  LET vals == {rows[i][col] : i \in {j \in 1..Len(rows) : ~IsNull(rows[j][col])}}
      freq(v) == Cardinality({i \in 1..Len(rows) : rows[i][col] = v})
  IN SortSet({v \in vals : \A w \in vals : freq(w) <= freq(v)},
             LAMBDA a, b : StrRank(a.s) < StrRank(b.s))
\* x.iloc[0] in the place of x.mode().iloc[0]
Mode_FirstRow(rows, col) == IF Len(rows) > 0 THEN rows[1][col] ELSE Str("unknown")

\* lambda x: x.mode().iloc[0] if len(x.mode()) > 0 else 'unknown'
Mode(rows, col) ==
  IF Len(ModeValues(rows, col)) > 0 THEN ModeValues(rows, col)[1] ELSE Str("unknown")

\* the percentage cut to two decimals, not rounded
Percentage_Truncated(num, den) == (num * 10000) \div den

\* (num / den * 100).round(2), in hundredths of a percent: the nearest
\* hundredth, a tie going to the even one
Percentage(num, den) ==
  LET q == (num * 10000) \div den
      r == (num * 10000) % den
  IN IF 2 * r > den \/ (2 * r = den /\ q % 2 = 1) THEN q + 1 ELSE q

\* the table left in the order of the group keys: the sort left out
SortDesc_Unsorted(tab, col) == tab

\* sort_values(col, ascending=False): equal values keep their order (the
\* tables are shorter than the 16 rows from which numpy's sort stops being
\* an insertion sort)
SortDesc(tab, col) ==
  LET n == Len(tab)
      pos(i) == 1 + Cardinality({j \in 1..n :
                     \/ tab[j][col] > tab[i][col]
                     \/ (tab[j][col] = tab[i][col] /\ j < i)})
  IN [p \in 1..n |-> tab[CHOOSE i \in 1..n : pos(i) = p]]

\* lines 131-140
VulnerabilitySummary(df) ==
  LET keys == GroupKeys(df, "weakness_name")
      row(key) ==
        LET g == Group(df, "weakness_name", key)
        IN [weakness_name |-> key,
            total_reports |-> Count(g, "id"),
            bounty_reports |-> SumBool(g, "has_bounty"),
            avg_vote_count |-> Mean(g, "vote_count"),
            most_common_severity |-> Mode(g, "scope_max_severity"),
            bounty_percentage |-> Percentage(SumBool(g, "has_bounty"), Count(g, "id"))]
  IN SortDesc([k \in 1..Len(keys) |-> row(keys[k])], "total_reports")

\* lines 146-156
OrganizationMetrics(df) ==
  LET keys == GroupKeys(df, "team_handle")
      row(key) ==
        LET g == Group(df, "team_handle", key)
        IN [team_handle |-> key,
            total_reports |-> Count(g, "id"),
            bounty_reports |-> SumBool(g, "has_bounty"),
            avg_vote_count |-> Mean(g, "vote_count"),
            first_report |-> MinTs(g, "created_at"),
            latest_report |-> MaxTs(g, "created_at"),
            team_name |-> First(g, "team_name"),
            bounty_percentage |-> Percentage(SumBool(g, "has_bounty"), Count(g, "id"))]
  IN SortDesc([k \in 1..Len(keys) |-> row(keys[k])], "total_reports")

\* lines 162-173
ReporterAnalytics(df) ==
  LET keys == GroupKeys(df, "reporter_username")
      row(key) ==
        LET g == Group(df, "reporter_username", key)
        IN [username |-> key,
            total_reports |-> Count(g, "id"),
            valid_reports |-> CountResolved(g),
            avg_vote_count |-> Mean(g, "vote_count"),
            verified_status |-> First(g, "reporter_verified"),
            cleared_status |-> First(g, "reporter_cleared"),
            specialization |-> Mode(g, "weakness_name"),
            valid_percentage |-> Percentage(CountResolved(g), Count(g, "id"))]
  IN SortDesc([k \in 1..Len(keys) |-> row(keys[k])], "total_reports")

\* the table sorted by both columns ascending: ascending=True in the place
\* of ascending=[True, False]
SortTrends_BothAscending(tab) ==
  LET n == Len(tab)
      pos(i) == 1 + Cardinality({j \in 1..n :
                     \/ tab[j].year_month.ym < tab[i].year_month.ym
                     \/ /\ tab[j].year_month.ym = tab[i].year_month.ym
                        /\ \/ tab[j].report_count < tab[i].report_count
                           \/ (tab[j].report_count = tab[i].report_count /\ j < i)})
  IN [p \in 1..n |-> tab[CHOOSE i \in 1..n : pos(i) = p]]

\* line 187: sort_values(['year_month', 'report_count'], ascending=[True, False])
SortTrends(tab) ==
  LET n == Len(tab)
      pos(i) == 1 + Cardinality({j \in 1..n :
                     \/ tab[j].year_month.ym < tab[i].year_month.ym
                     \/ /\ tab[j].year_month.ym = tab[i].year_month.ym
                        /\ \/ tab[j].report_count > tab[i].report_count
                           \/ (tab[j].report_count = tab[i].report_count /\ j < i)})
  IN [p \in 1..n |-> tab[CHOOSE i \in 1..n : pos(i) = p]]

\* lines 179-187
TimeTrends(df) ==
  LET ok == {i \in 1..Len(df) :
               ~IsNull(df[i].year_month) /\ ~IsNull(df[i].weakness_name)}
      keys == SortSet({<<df[i].year_month, df[i].weakness_name>> : i \in ok},
                      LAMBDA a, b : \/ a[1].ym < b[1].ym
                                    \/ (a[1].ym = b[1].ym
                                        /\ StrRank(a[2].s) < StrRank(b[2].s)))
      row(key) ==
        LET g == SelectSeq(df, LAMBDA r : r.year_month = key[1] /\ r.weakness_name = key[2])
        IN [year_month |-> key[1],
            vulnerability_type |-> key[2],
            report_count |-> Count(g, "id"),
            bounty_count |-> SumBool(g, "has_bounty"),
            organization_count |-> NUnique(g, "team_handle"),
            bounty_percentage |-> Percentage(SumBool(g, "has_bounty"), Count(g, "id"))]
  IN SortTrends([k \in 1..Len(keys) |-> row(keys[k])])

(***************************************************************************)
(* The table writer (src/process_data.py:197-200): to_csv writes a null    *)
(* value as the empty field, which is also how it writes the empty string. *)
(***************************************************************************)
CsvField(v) == IF IsNull(v) THEN Str("") ELSE v

CsvVulnerabilitySummary(tab) ==
  [i \in 1..Len(tab) |->
     [tab[i] EXCEPT !.weakness_name = CsvField(@), !.avg_vote_count = CsvField(@),
                    !.most_common_severity = CsvField(@)]]
CsvOrganizationMetrics(tab) ==
  [i \in 1..Len(tab) |->
     [tab[i] EXCEPT !.team_handle = CsvField(@), !.avg_vote_count = CsvField(@),
                    !.first_report = CsvField(@), !.latest_report = CsvField(@),
                    !.team_name = CsvField(@)]]
CsvReporterAnalytics(tab) ==
  [i \in 1..Len(tab) |->
     [tab[i] EXCEPT !.username = CsvField(@), !.avg_vote_count = CsvField(@),
                    !.verified_status = CsvField(@), !.cleared_status = CsvField(@),
                    !.specialization = CsvField(@)]]
CsvTimeTrends(tab) ==
  [i \in 1..Len(tab) |->
     [tab[i] EXCEPT !.year_month = CsvField(@), !.vulnerability_type = CsvField(@)]]

NoFile == [exists |-> FALSE, rows |-> <<>>]
File(rows) == [exists |-> TRUE, rows |-> rows]

\* a writer that adds the rows to those of the file that is there (mode='a')
to_csv_Append(old, rows) == IF old.exists THEN File(old.rows \o rows) ELSE File(rows)
\* a writer that leaves a file that is there as it is
to_csv_KeepExisting(old, rows) == IF old.exists THEN old ELSE File(rows)

\* DataFrame.to_csv(path, index=False) over the file old that is at the
\* path: the file is opened for writing and holds the new rows only
to_csv(old, rows) == File(rows)
FileNames ==
  {"vulnerability_summary.csv", "organization_metrics.csv",
   "reporter_analytics.csv", "time_trends.csv"}

(***************************************************************************)
(* The cells and rows the properties draw from                             *)
(***************************************************************************)
Word(w) == PyStr(<<w>>)
TeamAcme == Text(TeamRepr(Word("acme"), PyStr(<<"Acme", " ", "Corp">>), <<"True">>))
TeamAcme2 == Text(TeamRepr(Word("acme"), Word("ACME"), <<"False">>))
TeamGlobex == Text(TeamRepr(Word("globex"), Word("Globex"), <<"False">>))
\* a handle and a name that hold the letters True and None
TeamTrueLayer ==
  Text(TeamRepr(PyStr(<<"True", "Layer">>), PyStr(<<"None", "Such">>), <<"True">>))
\* a name with an apostrophe, which Python's repr puts in double quotes
TeamApostrophe ==
  Text(TeamRepr(Word("obrien"), DqStr(<<"O", "'", "Brien">>), <<"True">>))
TeamJson ==
  Text(Obj(<<JsKV("handle", DqStr(<<"acme">>)),
             JsKV("profile", Obj(<<JsKV("name", DqStr(<<"Acme", " ", "Corp">>))>>)),
             JsKV("offers_bounties", <<"true">>)>>))
TeamList ==
  Text(Lst(<<TeamRepr(Word("globex"), Word("Globex"), <<"True">>),
             TeamRepr(Word("acme"), Word("ACME"), <<"False">>)>>))
TeamListOfStr == Text(Lst(<<Word("acme")>>))
TeamListOfNum == Text(Lst(<<<<"1">>, TeamRepr(Word("acme"), Word("ACME"), <<"True">>)>>))
TeamEmptyList == Text(Lst(<<>>))
TeamNoneText == Text(<<"None">>)
TeamScalar == Text(<<"60">>)
TeamProfileNone ==
  Text(Obj(<<PyKV("handle", Word("acme")), PyKV("profile", <<"None">>),
             PyKV("offers_bounties", <<"False">>)>>))
TeamProfileStr ==
  Text(Obj(<<PyKV("handle", Word("acme")), PyKV("profile", Word("ACME"))>>))
TeamHandleNone ==
  Text(Obj(<<PyKV("handle", <<"None">>),
             PyKV("profile", Obj(<<PyKV("name", <<"None">>)>>)),
             PyKV("offers_bounties", <<"None">>)>>))
TeamWithArray ==
  Text(Obj(<<PyKV("handle", Word("acme")),
             PyKV("profile", Obj(<<PyKV("name", Word("ACME"))>>)),
             PyKV("offers_bounties", <<"True">>),
             PyKV("tags", NpArray(<<Word("a"), <<"1">>>>)),
             PyKV("more", NpArray(<<>>))>>))
\* an array of arrays, and an array whose repr numpy wraps over two lines
TeamNestedArray ==
  Text(Obj(<<PyKV("handle", Word("acme")),
             PyKV("tags", NpArray(<<NpArray(<<<<"1">>>>), NpArray(<<<<"2">>>>)>>))>>))
TeamMultilineArray ==
  Text(Obj(<<PyKV("handle", Word("acme")),
             PyKV("tags", <<"array", "(", "[">> \o Word("a") \o <<",", "\n", " ">>
                            \o Word("b") \o <<"]", ",", " ", "dtype=object", ")">>)>>))
\* a string value that holds the word None between other words
TeamNoneInName ==
  Text(TeamRepr(Word("acme"), PyStr(<<"is", " ", "None", " ", "here">>), <<"False">>))
Garbage == Text(<<"not", " ", "json">>)
Truncated == Text(<<"{", "'", "handle", "'", ":", " ", "'", "acme">>)

RepAlice ==
  Text(Obj(<<PyKV("username", Word("alice")), PyKV("verified", <<"True">>),
             PyKV("cleared", <<"False">>)>>))
RepBob ==
  Text(Obj(<<PyKV("username", Word("bob")), PyKV("verified", <<"False">>),
             PyKV("cleared", <<"True">>)>>))
RepNull ==
  Text(Obj(<<PyKV("username", <<"None">>), PyKV("verified", <<"None">>),
             PyKV("cleared", <<"None">>)>>))
\* a reporter whose flags are null
RepAliceUnset ==
  Text(Obj(<<PyKV("username", Word("alice")), PyKV("verified", <<"None">>),
             PyKV("cleared", <<"None">>)>>))

WeakXss == Text(Obj(<<PyKV("id", <<"60">>), PyKV("name", Word("XSS"))>>))
WeakSqli == Text(Obj(<<PyKV("id", <<"61">>), PyKV("name", Word("SQLi"))>>))
WeakNull == Text(Obj(<<PyKV("id", <<"1">>), PyKV("name", <<"None">>)>>))

ScopeRepr(sev) ==
  Text(Obj(<<PyKV("asset_type", Word("URL")), PyKV("max_severity", sev),
             PyKV("asset_identifier", Word("example.com"))>>))
ScopeHigh == ScopeRepr(Word("high"))
ScopeLow == ScopeRepr(Word("low"))
ScopeNullSev == ScopeRepr(<<"None">>)

\* the cells of the decoder and extractor checks: texts, the empty cell,
\* and cells of a numeric or boolean column
CellCatalogue ==
  {TeamAcme, TeamAcme2, TeamGlobex, TeamTrueLayer, TeamApostrophe, TeamJson,
   TeamList, TeamListOfStr, TeamListOfNum, TeamEmptyList, TeamNoneText,
   TeamScalar, TeamProfileNone, TeamProfileStr, TeamHandleNone, TeamWithArray,
   TeamNestedArray, TeamMultilineArray, TeamNoneInName,
   Garbage, Truncated, RepAlice, RepBob, RepNull, WeakXss, WeakSqli, WeakNull,
   ScopeHigh, ScopeLow, ScopeNullSev, NaN, PyInt(60), Bool(TRUE)}

RawRow(reporter, team, weakness, scope, bounty, votes, substate, created) ==
  [reporter |-> reporter, team |-> team, weakness |-> weakness,
   structured_scope |-> scope, has_bounty |-> Bool(bounty),
   vote_count |-> PyInt(votes), substate |-> Str(substate), created_at |-> created]

RowCatalogue ==
  {RawRow(RepAlice, TeamAcme, WeakXss, ScopeHigh, TRUE, 2, "resolved", Ts(20230115)),
   RawRow(RepBob, TeamAcme2, WeakXss, ScopeLow, FALSE, 1, "informative", Ts(20230120)),
   RawRow(RepAlice, TeamList, WeakSqli, ScopeLow, TRUE, 3, "resolved", Ts(20230210)),
   RawRow(RepBob, TeamNoneText, WeakSqli, ScopeHigh, FALSE, 0, "resolved", Ts(20230105)),
   RawRow(Truncated, NaN, NaN, Garbage, FALSE, 1, "informative", Str("n/a")),
   RawRow(RepNull, TeamHandleNone, WeakNull, ScopeNullSev, TRUE, 2, "resolved", Ts(20230131)),
   RawRow(RepAlice, TeamListOfStr, WeakXss, ScopeHigh, TRUE, 1, "resolved", Ts(20230201)),
   RawRow(RepBob, TeamAcme, WeakNull, ScopeNullSev, FALSE, 4, "resolved", Ts(20230220)),
   RawRow(RepAlice, TeamGlobex, WeakXss, ScopeNullSev, TRUE, 2, "informative", NaN),
   RawRow(RepAlice, TeamAcme, WeakSqli, ScopeNullSev, FALSE, 1, "informative", Ts(20230225)),
   RawRow(RepAliceUnset, TeamHandleNone, WeakXss, ScopeLow, FALSE, 1, "duplicate", Ts(20230110))}

MaxRows == 3

\* the CSV files: one to MaxRows rows, each with an id of its own
RECURSIVE SeqsOf(_, _)
SeqsOf(S, n) ==
  IF n = 0 THEN {<<>>}
  ELSE {Append(q, r) : q \in SeqsOf(S, n - 1), r \in S}
WithIds(rows) == [i \in 1..Len(rows) |-> rows[i] @@ [id |-> PyInt(i)]]
CsvFiles ==
  {[exists |-> TRUE, rows |-> WithIds(q)] :
     q \in UNION {SeqsOf(RowCatalogue, n) : n \in 1..MaxRows}}
MissingCsv == [exists |-> FALSE, rows |-> <<>>]

(***************************************************************************)
(* State.  The pipeline run: csv is the input file, pc the position of     *)
(* main, df the data frame, the four tables as main holds them, files the  *)
(* four output files.  The decoding of one cell, step by step: cell, cpc,  *)
(* cleaned (the text handed to json.loads), decoder (the one that gave the *)
(* record), record, column and fields (the extractor's result).            *)
(* runs counts the runs of main so far, this one included, before is the   *)
(* input and the four files as the run before this one left them, and      *)
(* outputs the sets of four files that the runs so far have completed.     *)
(* The dashboard: insights is the file key_insights.json, dpc the position *)
(* of the script, local the variables of load_data, result the values main *)
(* holds from load_data's return, screen what the page shows, cache the    *)
(* value st.cache_data has memoized for load_data.  gpc is the position of *)
(* the script generate_insights.py.                                        *)
(***************************************************************************)
VARIABLES csv, pc, df, vulnerability_summary, org_metrics, reporter_analytics,
          time_trends, files, runs, before, outputs,
          cell, cpc, cleaned, decoder, record, column, fields,
          insights, dpc, local, result, screen, cache, gpc

pipeVars == <<csv, pc, df, vulnerability_summary, org_metrics, reporter_analytics,
              time_trends, files, runs, before, outputs>>
cellVars == <<cell, cpc, cleaned, decoder, record, column, fields>>
dashVars == <<insights, dpc, local, result, screen, cache, gpc>>
vars == <<pipeVars, cellVars, dashVars>>

PipeIdle ==
  /\ pc = "start"
  /\ df = <<>>
  /\ vulnerability_summary = <<>>
  /\ org_metrics = <<>>
  /\ reporter_analytics = <<>>
  /\ time_trends = <<>>
  /\ files = [f \in FileNames |-> NoFile]
  /\ runs = 1
  /\ before = [csv |-> MissingCsv, files |-> [f \in FileNames |-> NoFile]]
  /\ outputs = {}

CellIdle ==
  /\ cpc = "start"
  /\ cleaned = <<>>
  /\ decoder = "none"
  /\ record = Null
  /\ column = "none"
  /\ fields = Null

\* the digest file: not there, there but not JSON, or the digest
NoInsights == [exists |-> FALSE, valid |-> FALSE, content |-> EmptyDict]
BadInsights == [exists |-> TRUE, valid |-> FALSE, content |-> EmptyDict]
GoodInsights ==
  [exists |-> TRUE, valid |-> TRUE,
   content |-> Dict(<<[k |-> Str("top_vulnerability"), val |-> Str("XSS")]>>)]

NoLocals ==
  [vulnerability_summary |-> Null, org_metrics |-> Null, reporter_analytics |-> Null,
   time_trends |-> Null, key_insights |-> Null]

DashIdle ==
  /\ insights = NoInsights
  /\ dpc = "start"
  /\ local = NoLocals
  /\ result = Null
  /\ screen = "none"
  /\ cache = Null
  /\ gpc = "idle"

\* a pipeline run on one input file
Init ==
  /\ csv \in CsvFiles \cup {MissingCsv}
  /\ PipeIdle
  /\ cell = NaN
  /\ CellIdle
  /\ DashIdle

\* a reader that gives the empty frame for a file that is not there
read_csv_EmptyFrameWhenMissing(file) == [ok |-> TRUE, rows |-> file.rows]

\* pd.read_csv(path): the rows of the file; it raises when no file is there
read_csv(file) == [ok |-> file.exists, rows |-> file.rows]

\* line 62: the exception of pd.read_csv is not caught, and main ends
ReadCsv ==
  /\ pc = "start"
  /\ IF read_csv(csv).ok
     THEN pc' = "loaded" /\ df' = read_csv(csv).rows
     ELSE pc' = "failed" /\ df' = df
  /\ UNCHANGED <<csv, vulnerability_summary, org_metrics, reporter_analytics,
                 time_trends, files, cellVars, runs, before, outputs, dashVars>>

\* lines 67-71
ParseColumns ==
  /\ pc = "loaded"
  /\ df' = ParsedColumns(df)
  /\ pc' = "parsed"
  /\ UNCHANGED <<csv, vulnerability_summary, org_metrics, reporter_analytics,
                 time_trends, files, cellVars, runs, before, outputs, dashVars>>

\* lines 79-113: an exception of extract_team_info ends main
ExtractFields ==
  /\ pc = "parsed"
  /\ IF \E i \in 1..Len(df) : Raised(TeamInfo(df)[i])
     THEN pc' = "crashed" /\ df' = df
     ELSE pc' = "extracted" /\ df' = ExtractedColumns(df)
  /\ UNCHANGED <<csv, vulnerability_summary, org_metrics, reporter_analytics,
                 time_trends, files, cellVars, runs, before, outputs, dashVars>>

\* lines 119-125
ProcessDates ==
  /\ pc = "extracted"
  /\ df' = DateColumns(df)
  /\ pc' = "dated"
  /\ UNCHANGED <<csv, vulnerability_summary, org_metrics, reporter_analytics,
                 time_trends, files, cellVars, runs, before, outputs, dashVars>>

\* a main that saves the vulnerability summary as soon as it has it
CreateVulnerabilitySummary_SaveAtOnce ==
  /\ pc = "dated"
  /\ vulnerability_summary' = VulnerabilitySummary(df)
  /\ files' = [files EXCEPT !["vulnerability_summary.csv"] =
                              to_csv(@, CsvVulnerabilitySummary(VulnerabilitySummary(df)))]
  /\ pc' = "table1"
  /\ UNCHANGED <<csv, df, org_metrics, reporter_analytics, time_trends, cellVars, runs, before, outputs, dashVars>>

\* lines 131-140
CreateVulnerabilitySummary ==
  /\ pc = "dated"
  /\ vulnerability_summary' = VulnerabilitySummary(df)
  /\ pc' = "table1"
  /\ UNCHANGED <<csv, df, org_metrics, reporter_analytics, time_trends, files, cellVars, runs, before, outputs, dashVars>>

\* lines 146-156
CreateOrganizationMetrics ==
  /\ pc = "table1"
  /\ org_metrics' = OrganizationMetrics(df)
  /\ pc' = "table2"
  /\ UNCHANGED <<csv, df, vulnerability_summary, reporter_analytics, time_trends,
                 files, cellVars, runs, before, outputs, dashVars>>

\* lines 162-173
CreateReporterAnalytics ==
  /\ pc = "table2"
  /\ reporter_analytics' = ReporterAnalytics(df)
  /\ pc' = "table3"
  /\ UNCHANGED <<csv, df, vulnerability_summary, org_metrics, time_trends, files, cellVars, runs, before, outputs, dashVars>>

\* lines 179-187
CreateTimeTrends ==
  /\ pc = "table3"
  /\ time_trends' = TimeTrends(df)
  /\ pc' = "table4"
  /\ UNCHANGED <<csv, df, vulnerability_summary, org_metrics, reporter_analytics,
                 files, cellVars, runs, before, outputs, dashVars>>

\* line 197
SaveVulnerabilitySummary ==
  /\ pc = "table4"
  /\ files' = [files EXCEPT !["vulnerability_summary.csv"] =
                              to_csv(@, CsvVulnerabilitySummary(vulnerability_summary))]
  /\ pc' = "saved1"
  /\ UNCHANGED <<csv, df, vulnerability_summary, org_metrics, reporter_analytics,
                 time_trends, cellVars, runs, before, outputs, dashVars>>

\* line 198
SaveOrganizationMetrics ==
  /\ pc = "saved1"
  /\ files' = [files EXCEPT !["organization_metrics.csv"] =
                              to_csv(@, CsvOrganizationMetrics(org_metrics))]
  /\ pc' = "saved2"
  /\ UNCHANGED <<csv, df, vulnerability_summary, org_metrics, reporter_analytics,
                 time_trends, cellVars, runs, before, outputs, dashVars>>

\* line 199
SaveReporterAnalytics ==
  /\ pc = "saved2"
  /\ files' = [files EXCEPT !["reporter_analytics.csv"] =
                              to_csv(@, CsvReporterAnalytics(reporter_analytics))]
  /\ pc' = "saved3"
  /\ UNCHANGED <<csv, df, vulnerability_summary, org_metrics, reporter_analytics,
                 time_trends, cellVars, runs, before, outputs, dashVars>>

\* line 200
SaveTimeTrends ==
  /\ pc = "saved3"
  /\ files' = [files EXCEPT !["time_trends.csv"] = to_csv(@, CsvTimeTrends(time_trends))]
  /\ pc' = "done"
  /\ outputs' = outputs \cup {files'}
  /\ UNCHANGED <<csv, df, vulnerability_summary, org_metrics, reporter_analytics,
                 time_trends, cellVars, runs, before, dashVars>>

(***************************************************************************)
(* parse_json_column and the extractor on one cell, a step at a time       *)
(***************************************************************************)
Columns == {"reporter", "team", "weakness", "structured_scope"}

\* only the team columns call a method on a value not tested to be a dict
ExtractRaises(col, x) == col = "team" /\ Raised(extract_team_info(x))

\* the columns the extractor derives from the record of one JSON column
ExtractColumn(col, x) ==
  IF col = "reporter" THEN ReporterFields(x)
  ELSE IF col = "team"
       THEN IF Raised(extract_team_info(x)) THEN extract_team_info(x)
            ELSE TeamColumns(extract_team_info(x))
  ELSE IF col = "weakness" THEN WeaknessFields(x)
  ELSE ScopeFields(x)

\* the decoding of one cell
CellInit ==
  /\ cell \in CellCatalogue
  /\ CellIdle
  /\ csv = MissingCsv
  /\ PipeIdle
  /\ DashIdle

\* lines 40-41
AppendEmptyForNull ==
  /\ cpc = "start"
  /\ isna(cell)
  /\ record' = EmptyDict
  /\ decoder' = "absent"
  /\ cpc' = "parsed"
  /\ UNCHANGED <<cell, cleaned, column, fields, pipeVars, dashVars>>

\* lines 42-47
TryJson ==
  /\ cpc = "start"
  /\ ~isna(cell)
  /\ IsCellStr(cell)
  /\ cleaned' = clean_json_string(cell)
  /\ IF json_loads(clean_json_string(cell)).ok
     THEN /\ record' = json_loads(clean_json_string(cell)).val
          /\ decoder' = "json"
          /\ cpc' = "parsed"
     ELSE /\ cpc' = "json_failed"
          /\ UNCHANGED <<record, decoder>>
  /\ UNCHANGED <<cell, column, fields, pipeVars, dashVars>>

\* lines 48-51
TryLiteralEval ==
  /\ cpc = "json_failed"
  /\ IF literal_eval(LiteralEvalArg(cell)).ok
     THEN /\ record' = literal_eval(LiteralEvalArg(cell)).val
          /\ decoder' = "literal_eval"
          /\ cpc' = "parsed"
     ELSE /\ cpc' = "literal_failed"
          /\ UNCHANGED <<record, decoder>>
  /\ UNCHANGED <<cell, cleaned, column, fields, pipeVars, dashVars>>

\* lines 52-53
AppendEmptyFallback ==
  /\ cpc = "literal_failed"
  /\ record' = EmptyDict
  /\ decoder' = "default"
  /\ cpc' = "parsed"
  /\ UNCHANGED <<cell, cleaned, column, fields, pipeVars, dashVars>>

\* lines 54-55
AppendAsIs ==
  /\ cpc = "start"
  /\ ~isna(cell)
  /\ ~IsCellStr(cell)
  /\ record' = cell
  /\ decoder' = "as_is"
  /\ cpc' = "parsed"
  /\ UNCHANGED <<cell, cleaned, column, fields, pipeVars, dashVars>>

\* lines 79-113, the cell taken as a cell of the column col
Extract(col) ==
  /\ cpc = "parsed"
  /\ column' = col
  /\ fields' = ExtractColumn(col, record)
  /\ cpc' = IF ExtractRaises(col, record) THEN "raised" ELSE "extracted"
  /\ UNCHANGED <<cell, cleaned, decoder, record, pipeVars, dashVars>>

CellNext ==
  \/ AppendEmptyForNull
  \/ TryJson
  \/ TryLiteralEval
  \/ AppendEmptyFallback
  \/ AppendAsIs
  \/ \E col \in Columns : Extract(col)

CellSpec == CellInit /\ [][CellNext]_vars

Next ==
  \/ ReadCsv
  \/ ParseColumns
  \/ ExtractFields
  \/ ProcessDates
  \/ CreateVulnerabilitySummary
  \/ CreateOrganizationMetrics
  \/ CreateReporterAnalytics
  \/ CreateTimeTrends
  \/ SaveVulnerabilitySummary
  \/ SaveOrganizationMetrics
  \/ SaveReporterAnalytics
  \/ SaveTimeTrends

Spec == Init /\ [][Next]_vars

(***************************************************************************)
(* main run again.  Each run is a process of its own: it starts with no    *)
(* data frame and no tables and finds the files as the runs before it left *)
(* them.  Its input is the input of the run before, or that file removed,  *)
(* or another file.                                                        *)
(***************************************************************************)
MaxRuns == 2
MaxRerunRows == 2

OtherCsv ==
  [exists |-> TRUE,
   rows |-> WithIds(<<RawRow(RepBob, TeamGlobex, WeakSqli, ScopeHigh, TRUE, 5,
                             "resolved", Ts(20230310))>>)]
\* an input on which the extractor raises: a team that is a list of strings
CrashCsv ==
  [exists |-> TRUE,
   rows |-> WithIds(<<RawRow(RepAlice, TeamListOfStr, WeakXss, ScopeHigh, TRUE, 1,
                             "resolved", Ts(20230201))>>)]
RerunCsvFiles ==
  {[exists |-> TRUE, rows |-> WithIds(q)] :
     q \in UNION {SeqsOf(RowCatalogue, n) : n \in 1..MaxRerunRows}}

RerunInit ==
  /\ csv \in RerunCsvFiles \cup {MissingCsv}
  /\ PipeIdle
  /\ cell = NaN
  /\ CellIdle
  /\ DashIdle

\* lines 220-221: main is started again once the run before has ended, with
\* its last line, with the exception of read_csv or with one of the extractor
Rerun ==
  /\ pc \in {"done", "failed", "crashed"}
  /\ runs < MaxRuns
  /\ \E input \in {csv, MissingCsv, OtherCsv, CrashCsv} : csv' = input
  /\ pc' = "start"
  /\ df' = <<>>
  /\ vulnerability_summary' = <<>>
  /\ org_metrics' = <<>>
  /\ reporter_analytics' = <<>>
  /\ time_trends' = <<>>
  /\ runs' = runs + 1
  /\ before' = [csv |-> csv, files |-> files]
  /\ UNCHANGED <<files, outputs, cellVars, dashVars>>

RerunNext ==
  \/ Next
  \/ Rerun

RerunSpec == RerunInit /\ [][RerunNext]_vars

\* the four tables of a run on the rows of an input, as they are written
OutputOf(rows) ==
  LET d == DateColumns(ExtractedColumns(ParsedColumns(rows)))
  IN [f \in FileNames |->
        IF f = "vulnerability_summary.csv"
        THEN File(CsvVulnerabilitySummary(VulnerabilitySummary(d)))
        ELSE IF f = "organization_metrics.csv"
        THEN File(CsvOrganizationMetrics(OrganizationMetrics(d)))
        ELSE IF f = "reporter_analytics.csv"
        THEN File(CsvReporterAnalytics(ReporterAnalytics(d)))
        ELSE File(CsvTimeTrends(TimeTrends(d)))]

(***************************************************************************)
(* The dashboard (src/dashboards/streamlit_app.py): load_data (lines 49-68)*)
(* and main (lines 76-122) over the four files and the digest.             *)
(***************************************************************************)
TableOrder ==
  <<"vulnerability_summary.csv", "organization_metrics.csv",
    "reporter_analytics.csv", "time_trends.csv">>
LocalOf(f) ==
  IF f = "vulnerability_summary.csv" THEN "vulnerability_summary"
  ELSE IF f = "organization_metrics.csv" THEN "org_metrics"
  ELSE IF f = "reporter_analytics.csv" THEN "reporter_analytics"
  ELSE "time_trends"
Pages ==
  {"Overview", "Vulnerability Analysis", "Organization Metrics", "Reporter Analytics",
   "Trends & Narrative", "Insights & Recommendations", "Glossary"}
DataFrame(rows) == [t |-> "frame", rows |-> rows]
\* line 68: return None, None, None, None, {}
FailedLoad == [NoLocals EXCEPT !.key_insights = EmptyDict]

\* an input of the pipeline whose tables have several rows
SampleCsv ==
  [exists |-> TRUE,
   rows |-> WithIds(<<RawRow(RepAlice, TeamAcme, WeakXss, ScopeHigh, TRUE, 2,
                             "resolved", Ts(20230115)),
                      RawRow(RepBob, TeamNoneText, WeakSqli, ScopeHigh, FALSE, 0,
                             "resolved", Ts(20230105))>>)]

\* a dashboard session next to the pipeline: the script can be started
\* before, while and after main writes the four files; the digest is not
\* there, is no JSON, or is the digest
DashInit ==
  /\ csv \in {SampleCsv, OtherCsv}
  /\ PipeIdle
  /\ cell = NaN
  /\ CellIdle
  /\ insights \in {NoInsights, BadInsights, GoodInsights}
  /\ dpc = "start"
  /\ local = NoLocals
  /\ result = Null
  /\ screen = "none"
  /\ cache = Null
  /\ gpc = "idle"

NumericColumns ==
  {"total_reports", "bounty_reports", "bounty_percentage", "valid_reports",
   "valid_percentage", "report_count", "bounty_count", "organization_count"}

\* pd.read_csv on a table file: the fields of the rows, an empty field read
\* as NaN; it raises when no file is there
read_table(file) ==
  [ok |-> read_csv(file).ok,
   rows |-> [i \in 1..Len(file.rows) |->
               [c \in DOMAIN file.rows[i] |->
                  IF c \notin NumericColumns /\ file.rows[i][c] = Str("")
                  THEN NaN ELSE file.rows[i][c]]]]

\* a memo that hands out the memoized object itself (st.cache_resource):
\* what a page assigns into a table is then assigned into the memoized one
CacheAfterPage_SameObject(cached, held) == held

\* line 49, st.cache_data: each call is handed a copy of the memoized value,
\* so the memoized value stays as it is whatever a page does to the tables
\* it holds
CacheAfterPage(cached, held) == cached

\* lines 78-81: main shows the header and calls load_data; when a value is
\* memoized the body of load_data does not run: the call returns a copy of
\* the value and shows again the message the body showed
CallLoadData ==
  /\ dpc = "start"
  /\ IF cache = Null
     THEN /\ dpc' = "loading"
          /\ UNCHANGED <<result, screen>>
     ELSE /\ result' = cache
          /\ screen' = IF cache.vulnerability_summary = Null
                       THEN "Error loading data" ELSE screen
          /\ dpc' = "returned"
  /\ UNCHANGED <<insights, gpc, local, cache, pipeVars, cellVars>>

\* lines 53-56, one read_csv at a time, in the order of the code; the
\* exception of a read is caught at line 66: st.error, and line 68 returns
ReadTable ==
  /\ dpc = "loading"
  /\ LET k == 1 + Cardinality({j \in 1..4 : local[LocalOf(TableOrder[j])] # Null})
         f == TableOrder[k]
     IN IF read_table(files[f]).ok
        THEN /\ local' = [local EXCEPT ![LocalOf(f)] = DataFrame(read_table(files[f]).rows)]
             /\ dpc' = IF k = 4 THEN "digest" ELSE "loading"
             /\ UNCHANGED <<result, screen, cache>>
        ELSE /\ result' = FailedLoad
             /\ cache' = FailedLoad
             /\ screen' = "Error loading data"
             /\ dpc' = "returned"
             /\ UNCHANGED local
  /\ UNCHANGED <<insights, gpc, pipeVars, cellVars>>

\* lines 59-61 without the try of line 59: the exception of open or of
\* json.load leaves the block
read_key_insights_NoInnerTry(file) ==
  IF file.exists /\ file.valid THEN file.content
  ELSE [t |-> "raise", exc |-> "FileNotFoundError"]

\* lines 59-63: the digest, or {} when open or json.load raises
read_key_insights(file) ==
  IF file.exists /\ file.valid THEN file.content ELSE EmptyDict

\* lines 59-65 (an exception that leaves the inner block would be caught at
\* line 66, like that of a read); the value returned is memoized
LoadDigest ==
  /\ dpc = "digest"
  /\ IF Raised(read_key_insights(insights))
     THEN /\ result' = FailedLoad
          /\ cache' = FailedLoad
          /\ screen' = "Error loading data"
          /\ UNCHANGED local
     ELSE /\ local' = [local EXCEPT !.key_insights = read_key_insights(insights)]
          /\ result' = [local EXCEPT !.key_insights = read_key_insights(insights)]
          /\ cache' = [local EXCEPT !.key_insights = read_key_insights(insights)]
          /\ UNCHANGED screen
  /\ dpc' = "returned"
  /\ UNCHANGED <<insights, gpc, pipeVars, cellVars>>

\* lines 83-88: without tables main reports the failure and returns
CheckLoaded ==
  /\ dpc = "returned"
  /\ IF result.vulnerability_summary = Null
     THEN /\ screen' = "Failed to load data"
          /\ dpc' = "stopped"
     ELSE /\ dpc' = "sidebar"
          /\ UNCHANGED screen
  /\ UNCHANGED <<insights, gpc, local, result, cache, pipeVars, cellVars>>

\* line 626: time_trends['year_month'] = pd.to_datetime(...), the month as
\* the timestamp of its first day
YearMonthToDatetime(rows) ==
  [i \in 1..Len(rows) |->
     [rows[i] EXCEPT !.year_month = IF @.t = "period" THEN Ts(@.ym * 100 + 1) ELSE NaT]]

\* the tables main holds once the page function has run: Trends & Narrative
\* assigns to a column of the time trends it was handed (line 626), the
\* other pages assign to none of their tables
TablesAfterPage(page, held) ==
  IF page = "Trends & Narrative"
  THEN [held EXCEPT !.time_trends = DataFrame(YearMonthToDatetime(@.rows))]
  ELSE held

\* lines 89-122: the page chosen in the sidebar is shown
ShowPage(page) ==
  /\ dpc = "sidebar"
  /\ result' = TablesAfterPage(page, result)
  /\ cache' = CacheAfterPage(cache, TablesAfterPage(page, result))
  /\ screen' = page
  /\ dpc' = "rendered"
  /\ UNCHANGED <<insights, gpc, local, pipeVars, cellVars>>

\* a page selection (lines 89-94) or a filter change (the sliders and select
\* boxes of lines 212-215, 258-261, 304-307): streamlit runs the script
\* again from its first line, with the memo as it is; what the run before
\* showed stays on the screen until this run shows something in its place
Interact ==
  /\ dpc \in {"rendered", "stopped"}
  /\ dpc' = "start"
  /\ local' = NoLocals
  /\ result' = Null
  /\ UNCHANGED <<insights, gpc, screen, cache, pipeVars, cellVars>>

DashNext ==
  \/ Next
  \/ Rerun
  \/ CallLoadData
  \/ ReadTable
  \/ LoadDigest
  \/ CheckLoaded
  \/ \E page \in Pages : ShowPage(page)
  \/ Interact

DashSpec == DashInit /\ [][DashNext]_vars

(***************************************************************************)
(* The digest writer (src/generate_insights.py), a script of its own that  *)
(* reads the four table files and writes key_insights.json.                *)
(***************************************************************************)
\* str(x) of a field read from a table file: the string itself, and 'nan'
\* for a field that was empty
str(v) == IF v.t = "str" THEN v ELSE Str("nan")

RECURSIVE SumOf(_, _)
\* int(table[col].sum())
SumOf(rows, col) ==
  IF rows = <<>> THEN 0 ELSE Head(rows)[col] + SumOf(Tail(rows), col)

\* lines 11-32: the insights dictionary, from the rows of the three tables
\* (overall_bounty_rate in hundredths of a percent)
Insights(vs, om, ra) ==
  Dict(<<[k |-> Str("total_reports"), val |-> PyInt(SumOf(vs, "total_reports"))],
         [k |-> Str("total_bounties"), val |-> PyInt(SumOf(vs, "bounty_reports"))],
         [k |-> Str("overall_bounty_rate"),
          val |-> PyInt(Percentage(SumOf(vs, "bounty_reports"), SumOf(vs, "total_reports")))],
         [k |-> Str("unique_organizations"), val |-> PyInt(Len(om))],
         [k |-> Str("active_reporters"), val |-> PyInt(Len(ra))],
         [k |-> Str("vulnerability_types"), val |-> PyInt(Len(vs))],
         [k |-> Str("top_vulnerability"), val |-> str(vs[1].weakness_name)],
         [k |-> Str("top_organization"), val |-> str(om[1].team_name)],
         [k |-> Str("top_reporter"), val |-> str(ra[1].username)]>>)

\* the script from its first line to its end.  It ends with an exception and
\* without writing when a table file is not there (lines 6-9), when the
\* vulnerability summary has no report (the division of line 13) and when a
\* table has no row (iloc[0], lines 16-18)
GenerateInsights ==
  /\ gpc = "idle"
  /\ LET vs == read_table(files["vulnerability_summary.csv"])
         om == read_table(files["organization_metrics.csv"])
         ra == read_table(files["reporter_analytics.csv"])
         tt == read_table(files["time_trends.csv"])
     IN IF /\ vs.ok /\ om.ok /\ ra.ok /\ tt.ok
           /\ SumOf(vs.rows, "total_reports") # 0
           /\ Len(vs.rows) > 0 /\ Len(om.rows) > 0 /\ Len(ra.rows) > 0
        THEN /\ insights' = [exists |-> TRUE, valid |-> TRUE,
                             content |-> Insights(vs.rows, om.rows, ra.rows)]
             /\ gpc' = "saved"
        ELSE /\ gpc' = "raised"
             /\ UNCHANGED insights
  /\ UNCHANGED <<dpc, local, result, screen, cache, pipeVars, cellVars>>

\* a pipeline run, and the digest script started at any point of it
DigestNext ==
  \/ Next
  \/ GenerateInsights

DigestSpec == RerunInit /\ [][DigestNext]_vars

(***************************************************************************)
(* Properties of a pipeline run (Spec)                                     *)
(***************************************************************************)
TablesComputed == pc \in {"table4", "saved1", "saved2", "saved3", "done"}
FieldsExtracted == pc \in {"extracted", "dated", "table1", "table2", "table3"} \/ TablesComputed

RECURSIVE SumColumn(_, _)
SumColumn(tab, col) ==
  IF tab = <<>> THEN 0 ELSE Head(tab)[col] + SumColumn(Tail(tab), col)

\* the rows of the data frame whose columns cols are all not null
RowsWithKey(cols) == {i \in 1..Len(df) : \A c \in cols : ~IsNull(df[i][c])}
\* the rows of the data frame that have the value key[c] in each column c
RowsOfGroup(key) == {i \in 1..Len(df) : \A c \in DOMAIN key : df[i][c] = key[c]}
BountyRowsOfGroup(key) == {i \in RowsOfGroup(key) : df[i].has_bounty = Bool(TRUE)}
ResolvedRowsOfGroup(key) == {i \in RowsOfGroup(key) : df[i].substate = Str("resolved")}

\* C1, as stated: in each of the four tables the total-report counts of the
\* groups add up to the number of input rows
C1_TotalsSumToInputRows ==
  TablesComputed =>
    /\ SumColumn(vulnerability_summary, "total_reports") = Len(csv.rows)
    /\ SumColumn(org_metrics, "total_reports") = Len(csv.rows)
    /\ SumColumn(reporter_analytics, "total_reports") = Len(csv.rows)
    /\ SumColumn(time_trends, "report_count") = Len(csv.rows)

\* C1, amended: in each table the counts add up to the number of input rows
\* whose grouping key is not null; a row whose key is null (a JSON null
\* under name, handle or username, or a created_at that is no date) is in
\* no group of that table, and no row is counted twice
C1_TotalsSumToKeyedRows ==
  TablesComputed =>
    /\ Len(df) = Len(csv.rows)
    /\ SumColumn(vulnerability_summary, "total_reports")
         = Cardinality(RowsWithKey({"weakness_name"}))
    /\ SumColumn(org_metrics, "total_reports")
         = Cardinality(RowsWithKey({"team_handle"}))
    /\ SumColumn(reporter_analytics, "total_reports")
         = Cardinality(RowsWithKey({"reporter_username"}))
    /\ SumColumn(time_trends, "report_count")
         = Cardinality(RowsWithKey({"year_month", "weakness_name"}))
    /\ \A k \in 1..Len(vulnerability_summary) :
         vulnerability_summary[k].total_reports
           = Cardinality(RowsOfGroup([weakness_name |-> vulnerability_summary[k].weakness_name]))
    /\ \A k \in 1..Len(time_trends) :
         time_trends[k].report_count
           = Cardinality(RowsOfGroup([year_month |-> time_trends[k].year_month,
                                      weakness_name |-> time_trends[k].vulnerability_type]))

\* a run in which rows were left out: fewer reports in the vulnerability
\* summary than input rows, and fewer still in the time trends
C1_RowsLeftOut ==
  /\ pc = "done"
  /\ 0 < SumColumn(time_trends, "report_count")
  /\ SumColumn(time_trends, "report_count") < SumColumn(vulnerability_summary, "total_reports")
  /\ SumColumn(vulnerability_summary, "total_reports") < Len(csv.rows)

\* p hundredths of a percent is the nearest hundredth to num / den * 100,
\* the even one of two equally near
NearestHundredth(p, num, den) ==
  LET d == p * den - num * 10000
  IN /\ 2 * d <= den
     /\ -2 * d <= den
     /\ (2 * d = den \/ -2 * d = den) => p % 2 = 0

PercentageOf(p, total, num, key) ==
  /\ total = Cardinality(RowsOfGroup(key))
  /\ NearestHundredth(p, num, total)
  /\ p \in 0..10000

\* C2: in every group of every table the percentage is the group's bounty
\* (or resolved) count over the group's report count, times 100, rounded to
\* two decimals, and lies in [0, 100]
C2_PercentagesRounded ==
  TablesComputed =>
    /\ \A k \in 1..Len(vulnerability_summary) :
         LET r == vulnerability_summary[k]
             key == [weakness_name |-> r.weakness_name]
         IN /\ r.bounty_reports = Cardinality(BountyRowsOfGroup(key))
            /\ PercentageOf(r.bounty_percentage, r.total_reports, r.bounty_reports, key)
    /\ \A k \in 1..Len(org_metrics) :
         LET r == org_metrics[k]
             key == [team_handle |-> r.team_handle]
         IN /\ r.bounty_reports = Cardinality(BountyRowsOfGroup(key))
            /\ PercentageOf(r.bounty_percentage, r.total_reports, r.bounty_reports, key)
    /\ \A k \in 1..Len(reporter_analytics) :
         LET r == reporter_analytics[k]
             key == [reporter_username |-> r.username]
         IN /\ r.valid_reports = Cardinality(ResolvedRowsOfGroup(key))
            /\ PercentageOf(r.valid_percentage, r.total_reports, r.valid_reports, key)
    /\ \A k \in 1..Len(time_trends) :
         LET r == time_trends[k]
             key == [year_month |-> r.year_month, weakness_name |-> r.vulnerability_type]
         IN /\ r.bounty_count = Cardinality(BountyRowsOfGroup(key))
            /\ PercentageOf(r.bounty_percentage, r.report_count, r.bounty_count, key)

\* a group of three reports, two with a bounty: 66.67, rounded up
C2_RoundedUp ==
  /\ TablesComputed
  /\ \E k \in 1..Len(vulnerability_summary) :
       /\ vulnerability_summary[k].total_reports = 3
       /\ vulnerability_summary[k].bounty_reports = 2
       /\ vulnerability_summary[k].bounty_percentage = 6667
  /\ \E k \in 1..Len(reporter_analytics) :
       reporter_analytics[k].valid_percentage \in {3333, 6667}

\* the non-null values of column col in the rows S of the data frame, how
\* often each occurs, and those that occur most often
ValuesIn(S, col) == {df[i][col] : i \in {j \in S : ~IsNull(df[j][col])}}
Frequency(S, col, v) == Cardinality({i \in S : df[i][col] = v})
MostFrequent(S, col) ==
  {v \in ValuesIn(S, col) : \A w \in ValuesIn(S, col) : Frequency(S, col, w) <= Frequency(S, col, v)}
\* the value of T that occurs first in the rows S, in input order
FirstOccurring(S, col, T) ==
  CHOOSE v \in T : \A w \in T :
    Min({i \in S : df[i][col] = v}) <= Min({i \in S : df[i][col] = w})
\* the value of T that is least in the order of Python strings
LeastString(T) == CHOOSE v \in T : \A w \in T : StrRank(v.s) <= StrRank(w.s)

ModeIs(S, col, m) ==
  /\ ValuesIn(S, col) = {} => m = Str("unknown")
  /\ \A v \in ValuesIn(S, col) :
       (\A w \in ValuesIn(S, col) \ {v} : Frequency(S, col, w) < Frequency(S, col, v))
         => m = v

\* C4: the mode is "unknown" for a group without a non-null value and is the
\* value that is strictly more frequent than every other one
C4_ModeFallbackAndDominant ==
  TablesComputed =>
    /\ \A k \in 1..Len(vulnerability_summary) :
         ModeIs(RowsOfGroup([weakness_name |-> vulnerability_summary[k].weakness_name]),
                "scope_max_severity", vulnerability_summary[k].most_common_severity)
    /\ \A k \in 1..Len(reporter_analytics) :
         ModeIs(RowsOfGroup([reporter_username |-> reporter_analytics[k].username]),
                "weakness_name", reporter_analytics[k].specialization)

\* a reporter with weaknesses XSS, XSS, SQLi has specialization XSS, and a
\* weakness none of whose reports has a severity has "unknown"
C4_DominantAndUnknown ==
  /\ TablesComputed
  /\ \E k \in 1..Len(reporter_analytics) :
       LET S == RowsOfGroup([reporter_username |-> reporter_analytics[k].username])
       IN /\ Frequency(S, "weakness_name", Str("XSS")) = 2
          /\ Frequency(S, "weakness_name", Str("SQLi")) = 1
          /\ reporter_analytics[k].specialization = Str("XSS")
  /\ \E k \in 1..Len(vulnerability_summary) :
       LET S == RowsOfGroup([weakness_name |-> vulnerability_summary[k].weakness_name])
       IN /\ ValuesIn(S, "scope_max_severity") = {}
          /\ vulnerability_summary[k].most_common_severity = Str("unknown")

BothDecodersFail(c) ==
  /\ IsCellStr(c)
  /\ ~json_loads(clean_json_string(c)).ok
  /\ ~literal_eval(c.toks).ok

\* C5: parse_json_column raises for no cell: a text that neither decoder
\* accepts gives the empty mapping, and every other row of the batch has its
\* record (what json.loads gives or, when it fails, what literal_eval gives)
C5_ParseNeverRaises ==
  pc = "parsed" =>
    /\ Len(df) = Len(csv.rows)
    /\ \A i \in 1..Len(df) : \A col \in Columns :
         LET c == csv.rows[i][col]
             p == df[i][col \o "_parsed"]
         IN /\ ~Raised(p)
            /\ BothDecodersFail(c) => p = EmptyDict
            /\ (IsCellStr(c) /\ json_loads(clean_json_string(c)).ok)
                 => p = json_loads(clean_json_string(c)).val
            /\ (IsCellStr(c) /\ ~json_loads(clean_json_string(c)).ok
                  /\ literal_eval(c.toks).ok) => p = literal_eval(c.toks).val

\* a batch with a text that neither decoder accepts in one row and a decoded
\* mapping, in the same column, in another
C5_BadCellAmongGood ==
  /\ pc = "parsed"
  /\ \E i, j \in 1..Len(df) :
       /\ BothDecodersFail(csv.rows[i].reporter)
       /\ df[i].reporter_parsed = EmptyDict
       /\ IsDict(df[j].reporter_parsed)
       /\ df[j].reporter_parsed # EmptyDict

StringFields ==
  {"reporter_username", "team_handle", "team_name", "weakness_id", "weakness_name",
   "scope_asset_type", "scope_max_severity", "scope_asset_identifier"}
FlagFields == {"reporter_verified", "reporter_cleared", "team_offers_bounties"}

\* C7, as stated: in every enriched row the derived string fields are
\* strings and the derived flags are booleans, never null
C7_DerivedFieldsTyped ==
  FieldsExtracted =>
    \A i \in 1..Len(df) :
      /\ \A f \in StringFields : df[i][f].t = "str"
      /\ \A f \in FlagFields : df[i][f].t = "bool"

(***************************************************************************)
(* Properties of the decoding of one cell (CellSpec)                       *)
(***************************************************************************)
\* C6, as stated: no extraction step raises, whatever record the decoder
\* gave
C6_NoExtractionRaises == cpc # "raised"

C8_Handles == {<<"acme">>, <<"obrien">>, <<"globex">>, <<"True", "Layer">>}
C8_Names == {<<"Acme", " ", "Corp">>, <<"ACME">>, <<"O", "'", "Brien">>, <<"None", "Such">>}

\* C8, as stated: the repr of a team with a handle, a profile name and
\* offers_bounties True gives that handle, that name and true
C8_TeamReprExtracted ==
  \A h \in C8_Handles : \A n \in C8_Names :
    (/\ cell \in {Text(TeamRepr(PyStr(h), PyStr(n), <<"True">>)),
                  Text(TeamRepr(PyStr(h), DqStr(n), <<"True">>))}
     /\ column = "team"
     /\ cpc \in {"extracted", "raised"})
    => fields = [team_handle |-> Str(Concat(h)), team_name |-> Str(Concat(n)),
                 team_offers_bounties |-> Bool(TRUE)]

\* C9, as stated: a mapping is read directly, a non-empty sequence of
\* mappings from its first element, every other shape gives the defaults
C9_TeamPolymorphic ==
  (column = "team" /\ cpc \in {"extracted", "raised"}) =>
    IF IsDict(record) THEN fields = TeamColumns(TeamFields(record))
    ELSE IF /\ IsList(record)
            /\ Len(record.xs) > 0
            /\ \A k \in 1..Len(record.xs) : IsDict(record.xs[k])
         THEN fields = TeamColumns(TeamFields(record.xs[1]))
         ELSE fields = TeamColumns(TeamDefaults)

\* C10, as stated: for a cell that is absent or not a string,
\* clean_json_string gives '{}' and parse_json_column the empty mapping
C10_NonStringGivesEmptyMapping ==
  (cpc = "parsed" /\ (isna(cell) \/ ~IsCellStr(cell))) =>
    /\ clean_json_string(cell) = <<"{", "}">>
    /\ record = EmptyDict

\* C10, amended: for such a cell clean_json_string gives '{}';
\* parse_json_column, which does not call it there, gives the empty mapping
\* for an absent cell and the cell's own value for any other
C10_NonStringPassedThrough ==
  (cpc = "parsed" /\ (isna(cell) \/ ~IsCellStr(cell))) =>
    /\ clean_json_string(cell) = <<"{", "}">>
    /\ cleaned = <<>>
    /\ record = IF isna(cell) THEN EmptyDict ELSE cell

\* a cell of a numeric column has come through as it is
C10_NumberPassedThrough ==
  /\ cpc = "parsed"
  /\ cell = PyInt(60)
  /\ decoder = "as_is"
  /\ record = PyInt(60)

\* the mapping a cell's repr stands for, written out
KV(key, v) == [k |-> Str(key), val |-> v]
TeamMapping(handle, name, offers) ==
  Dict(<<KV("handle", handle), KV("profile", Dict(<<KV("name", name)>>)),
         KV("offers_bounties", offers)>>)
\* reprs of mappings, none with an apostrophe in a string value, each with
\* the mapping it stands for: None, True, False as null, true, false and
\* every array as the empty list
C11_Reprs ==
  {[cell |-> TeamAcme, mapping |-> TeamMapping(Str("acme"), Str("Acme Corp"), Bool(TRUE))],
   [cell |-> TeamHandleNone, mapping |-> TeamMapping(Null, Null, Null)],
   [cell |-> TeamTrueLayer,
    mapping |-> TeamMapping(Str("TrueLayer"), Str("NoneSuch"), Bool(TRUE))],
   [cell |-> TeamNoneInName,
    mapping |-> TeamMapping(Str("acme"), Str("is None here"), Bool(FALSE))],
   [cell |-> TeamWithArray,
    mapping |-> Dict(<<KV("handle", Str("acme")),
                       KV("profile", Dict(<<KV("name", Str("ACME"))>>)),
                       KV("offers_bounties", Bool(TRUE)),
                       KV("tags", List(<<>>)), KV("more", List(<<>>))>>)],
   [cell |-> TeamNestedArray,
    mapping |-> Dict(<<KV("handle", Str("acme")), KV("tags", List(<<>>))>>)],
   [cell |-> TeamMultilineArray,
    mapping |-> Dict(<<KV("handle", Str("acme")), KV("tags", List(<<>>))>>)],
   [cell |-> RepAlice,
    mapping |-> Dict(<<KV("username", Str("alice")), KV("verified", Bool(TRUE)),
                       KV("cleared", Bool(FALSE))>>)]}

\* C11, as stated: the text clean_json_string gives for the repr of a mapping
\* is accepted by the JSON decoder and decodes to that mapping
C11_ReprDecodesAsJson ==
  \A c \in C11_Reprs :
    (cell = c.cell /\ cpc # "start") =>
      /\ json_loads(cleaned).ok
      /\ json_loads(cleaned).val = c.mapping

RECURSIVE OpenQuote(_, _)
\* the quote that is open after token i of toks ("" when none is): a string
\* runs from a quote to the next quote of the same kind
OpenQuote(toks, i) ==
  IF i = 0 THEN ""
  ELSE LET o == OpenQuote(toks, i - 1)
       IN IF o = "" THEN (IF toks[i] \in {"'", "\""} THEN toks[i] ELSE "")
          ELSE IF toks[i] = o THEN "" ELSE o
\* token i lies inside a quoted string
InString(toks, i) == i > 1 /\ OpenQuote(toks, i - 1) # "" /\ toks[i] # OpenQuote(toks, i - 1)
HasArray(toks) == \E i \in 1..Len(toks) : toks[i] = "array"

\* C12, as stated: of the words None, True and False only the bare ones are
\* replaced; one inside a quoted string stays, and the strings of the record
\* are those of the input (which literal_eval reads off the cell as it is)
C12_OnlyBareLiteralsReplaced ==
  (IsCellStr(cell) /\ cpc # "start" /\ ~HasArray(cell.toks)) =>
    /\ Len(cleaned) = Len(cell.toks)
    /\ \A i \in 1..Len(cleaned) :
         (cell.toks[i] \in {"None", "True", "False"} /\ InString(cell.toks, i))
           => cleaned[i] = cell.toks[i]
    /\ (json_loads(cleaned).ok /\ literal_eval(cell.toks).ok)
         => json_loads(cleaned).val = literal_eval(cell.toks).val

\* C13, as stated: no array( ... dtype=object) text is left in the text
\* clean_json_string gives
C13_NoArrayTextLeft ==
  (IsCellStr(cell) /\ cpc # "start") =>
    \A i \in 1..Len(cleaned) : cleaned[i] \notin {"array", "dtype=object"}

\* what the decoders give for the string cell: the JSON decoder on the
\* normalized text, the literal decoder on the text of the cell
JsonOf(c) == json_loads(clean_json_string(c))
LiteralOf(c) == literal_eval(c.toks)

C25_ResultOfFirstSuccess ==
  IsCellStr(cell) =>
    /\ cpc = "json_failed" => (~JsonOf(cell).ok /\ decoder = "none")
    /\ cpc = "literal_failed"
         => (~JsonOf(cell).ok /\ ~LiteralOf(cell).ok /\ decoder = "none")
    /\ cpc \in {"parsed", "extracted", "raised"}
         => /\ decoder \in {"json", "literal_eval", "default"}
            /\ decoder = "json" <=> JsonOf(cell).ok
            /\ decoder = "literal_eval" <=> (~JsonOf(cell).ok /\ LiteralOf(cell).ok)
            /\ decoder = "default" <=> (~JsonOf(cell).ok /\ ~LiteralOf(cell).ok)
            /\ decoder = "json" => record = JsonOf(cell).val
            /\ decoder = "literal_eval" => record = LiteralOf(cell).val
            /\ decoder = "default" => record = EmptyDict

C25_ResultKept ==
  /\ decoder # "none" => (decoder' = decoder /\ record' = record)
  /\ (IsCellStr(cell) /\ cpc = "start") => cpc' \in {"parsed", "json_failed"}
  /\ cpc = "json_failed" => cpc' \in {"parsed", "literal_failed"}
  /\ cpc = "literal_failed" => cpc' = "parsed"

\* C25: for a string cell the record is what the JSON decoder gives for the
\* normalized text; only when that fails, what the literal decoder gives for
\* the text of the cell as it was read; only when that fails too, the empty
\* mapping; the decoders are tried in this order, and a record once given is
\* not replaced
C25_DecodersInOrder == []C25_ResultOfFirstSuccess /\ [][C25_ResultKept]_vars

\* the JSON decoder has failed on a name with an apostrophe, which the
\* normalizer turns into a quote, and the literal decoder has given the
\* record from the text of the cell
C25_LiteralAfterJsonFailed ==
  /\ cell = TeamApostrophe
  /\ cpc = "parsed"
  /\ decoder = "literal_eval"
  /\ ~json_loads(cleaned).ok
  /\ record = TeamMapping(Str("obrien"), Str("O'Brien"), Bool(TRUE))

(***************************************************************************)
(* Properties of the order and the groups of the tables (Spec)             *)
(***************************************************************************)
NonIncreasing(rows, col) ==
  \A k \in 1..(Len(rows) - 1) : rows[k][col] >= rows[k + 1][col]
SortedFiles ==
  {"vulnerability_summary.csv", "organization_metrics.csv", "reporter_analytics.csv"}

\* C18: the vulnerability summary, the organization metrics and the reporter
\* analytics are written in non-increasing order of total_reports
C18_WrittenByTotalDescending ==
  /\ \A f \in SortedFiles : NonIncreasing(files[f].rows, "total_reports")
  /\ TablesComputed =>
       /\ NonIncreasing(vulnerability_summary, "total_reports")
       /\ NonIncreasing(org_metrics, "total_reports")
       /\ NonIncreasing(reporter_analytics, "total_reports")

\* written tables in which the sort has moved a larger group ahead of a
\* group whose key comes first
C18_LargerGroupMovedAhead ==
  /\ pc = "done"
  /\ LET v == files["vulnerability_summary.csv"].rows
         r == files["reporter_analytics.csv"].rows
     IN /\ Len(v) >= 2 /\ Len(r) >= 2
        /\ v[1].total_reports > v[2].total_reports
        /\ StrRank(v[1].weakness_name.s) > StrRank(v[2].weakness_name.s)
        /\ r[1].total_reports > r[2].total_reports
        /\ StrRank(r[1].username.s) > StrRank(r[2].username.s)

\* C19: the time trends have one row for each (period, weakness name) pair
\* of the data frame and are in ascending order of the period, rows of one
\* period in non-increasing order of report_count
C19_TrendsByPeriodThenCount ==
  TablesComputed =>
    /\ \A k, l \in 1..Len(time_trends) :
         (/\ time_trends[k].year_month = time_trends[l].year_month
          /\ time_trends[k].vulnerability_type = time_trends[l].vulnerability_type)
           => k = l
    /\ \A i \in RowsWithKey({"year_month", "weakness_name"}) :
         \E k \in 1..Len(time_trends) :
           /\ time_trends[k].year_month = df[i].year_month
           /\ time_trends[k].vulnerability_type = df[i].weakness_name
    /\ \A k \in 1..Len(time_trends) :
         RowsOfGroup([year_month |-> time_trends[k].year_month,
                      weakness_name |-> time_trends[k].vulnerability_type]) # {}
    /\ \A k \in 1..(Len(time_trends) - 1) :
         \/ time_trends[k].year_month.ym < time_trends[k + 1].year_month.ym
         \/ /\ time_trends[k].year_month.ym = time_trends[k + 1].year_month.ym
            /\ time_trends[k].report_count >= time_trends[k + 1].report_count

\* two weaknesses in one period, the one with more reports first although
\* its name comes later
C19_MoreReportsFirstInPeriod ==
  /\ TablesComputed
  /\ Len(time_trends) >= 2
  /\ time_trends[1].year_month = time_trends[2].year_month
  /\ time_trends[1].report_count > time_trends[2].report_count
  /\ StrRank(time_trends[1].vulnerability_type.s) > StrRank(time_trends[2].vulnerability_type.s)

\* the rows of tab whose column col is v
TableRows(tab, col, v) == {k \in 1..Len(tab) : tab[k][col] = v}
\* every string in column col of the data frame, the empty one too, has one
\* row of its own in tab, which counts the rows with exactly that string
OneGroupPerString(tab, keycol, col) ==
  \A i \in 1..Len(df) :
    df[i][col].t = "str" =>
      /\ Cardinality(TableRows(tab, keycol, df[i][col])) = 1
      /\ \A k \in TableRows(tab, keycol, df[i][col]) :
           tab[k].total_reports = Cardinality({j \in 1..Len(df) : df[j][col] = df[i][col]})

\* C20: the groups are the distinct strings of the key column; the rows
\* whose key is the empty string are one group with key "", not dropped and
\* not merged into another group
C20_EmptyStringIsAGroup ==
  TablesComputed =>
    /\ OneGroupPerString(vulnerability_summary, "weakness_name", "weakness_name")
    /\ OneGroupPerString(org_metrics, "team_handle", "team_handle")
    /\ OneGroupPerString(reporter_analytics, "username", "reporter_username")

\* each of the three tables has a group "" next to a group with a name
C20_EmptyGroupNextToNamed ==
  /\ TablesComputed
  /\ TableRows(vulnerability_summary, "weakness_name", Str("")) # {}
  /\ TableRows(org_metrics, "team_handle", Str("")) # {}
  /\ TableRows(reporter_analytics, "username", Str("")) # {}
  /\ Len(vulnerability_summary) >= 2
  /\ Len(org_metrics) >= 2
  /\ Len(reporter_analytics) >= 2

\* the first row of the data frame, in input order, among the rows S
FirstRow(S) == df[Min(S)]

\* C21, as stated: team_name, verified_status and cleared_status of a group
\* are the team_name, reporter_verified and reporter_cleared of the first
\* input row of the group, whatever that row's value is (a null value is
\* written as the empty field, and is compared as written)
C21_FirstRowValue ==
  TablesComputed =>
    /\ \A k \in 1..Len(org_metrics) :
         LET S == RowsOfGroup([team_handle |-> org_metrics[k].team_handle])
         IN CsvField(org_metrics[k].team_name) = CsvField(FirstRow(S).team_name)
    /\ \A k \in 1..Len(reporter_analytics) :
         LET S == RowsOfGroup([reporter_username |-> reporter_analytics[k].username])
         IN /\ CsvField(reporter_analytics[k].verified_status)
                 = CsvField(FirstRow(S).reporter_verified)
            /\ CsvField(reporter_analytics[k].cleared_status)
                 = CsvField(FirstRow(S).reporter_cleared)

\* C22: valid_reports of a reporter is the number of the reporter's input
\* rows whose substate is the string "resolved", and lies between 0 and
\* total_reports
C22_ValidReportsCountResolved ==
  TablesComputed =>
    \A k \in 1..Len(reporter_analytics) :
      LET r == reporter_analytics[k]
          S == RowsOfGroup([reporter_username |-> r.username])
      IN /\ r.valid_reports
              = Cardinality({i \in S : csv.rows[i].substate = Str("resolved")})
         /\ 0 <= r.valid_reports
         /\ r.valid_reports <= r.total_reports

\* a reporter with one resolved report among three, one of the others
\* closed as a duplicate
C22_OneResolvedOfThree ==
  /\ TablesComputed
  /\ \E k \in 1..Len(reporter_analytics) :
       LET S == RowsOfGroup([reporter_username |-> reporter_analytics[k].username])
       IN /\ reporter_analytics[k].total_reports = 3
          /\ reporter_analytics[k].valid_reports = 1
          /\ \E i \in S : csv.rows[i].substate = Str("duplicate")

\* C23, as stated: organization_count of a (period, weakness name) group
\* is the number of distinct team handles among the group's rows, at least
\* 1 and at most the group's report_count
C23_OrganizationCountInRange ==
  TablesComputed =>
    \A k \in 1..Len(time_trends) :
      LET r == time_trends[k]
          S == RowsOfGroup([year_month |-> r.year_month,
                            weakness_name |-> r.vulnerability_type])
      IN /\ r.organization_count = Cardinality(ValuesIn(S, "team_handle"))
         /\ r.organization_count >= 1
         /\ r.organization_count <= r.report_count

(***************************************************************************)
(* Properties of runs that follow one another (RerunSpec)                  *)
(***************************************************************************)
AllWritten(fs) == \A f \in FileNames : fs[f].exists

\* C14: a run on the input of the run before it, which wrote the four
\* tables, changes none of them: at every point of the run the four files
\* are as that run left them, rows, values and order
C14_SecondRunChangesNothing ==
  (runs >= 2 /\ before.csv = csv /\ csv.exists /\ AllWritten(before.files))
    => files = before.files

\* a second run on the same input has ended, over tables of several rows
C14_SecondRunDone ==
  /\ pc = "done"
  /\ runs = 2
  /\ before.csv = csv
  /\ AllWritten(before.files)
  /\ Len(files["vulnerability_summary.csv"].rows) >= 2
  /\ Len(files["time_trends.csv"].rows) >= 2

\* C15: when a run has ended with its last line, each of the four files
\* holds the table of that run's input and nothing of an earlier run
C15_FilesHoldLastRun ==
  pc = "done" => files = OutputOf(csv.rows)

\* a run on another input has replaced four tables that were longer
C15_LongerTablesReplaced ==
  /\ pc = "done"
  /\ runs = 2
  /\ before.csv # csv
  /\ AllWritten(before.files)
  /\ \A f \in FileNames : Len(before.files[f].rows) > Len(files[f].rows)

\* C16: while the input file is not there a run does nothing but end with
\* the exception of read_csv: it writes no table and the files of earlier
\* runs stay as they are
C16_ReadFailureWritesNothing ==
  [][~csv.exists =>
       /\ files' = files
       /\ pc = "start" => pc' = "failed"
       /\ pc \in {"start", "failed"}]_vars

\* a run has failed on a missing input after a run that wrote its tables
C16_FailedAfterSuccess ==
  /\ pc = "failed"
  /\ runs = 2
  /\ ~csv.exists
  /\ AllWritten(files)
  /\ files = before.files
  /\ Len(files["vulnerability_summary.csv"].rows) >= 1

\* the files of names W hold the tables of this run, every other file is as
\* the run found it
WrittenSoFar(W) ==
  /\ \A f \in FileNames \ W : files[f] = before.files[f]
  /\ "vulnerability_summary.csv" \in W =>
       files["vulnerability_summary.csv"]
         = File(CsvVulnerabilitySummary(vulnerability_summary))
  /\ "organization_metrics.csv" \in W =>
       files["organization_metrics.csv"] = File(CsvOrganizationMetrics(org_metrics))
  /\ "reporter_analytics.csv" \in W =>
       files["reporter_analytics.csv"] = File(CsvReporterAnalytics(reporter_analytics))
  /\ "time_trends.csv" \in W =>
       files["time_trends.csv"] = File(CsvTimeTrends(time_trends))

\* C26: until the four tables are computed a run writes no file, and it then
\* writes the vulnerability summary, the organization metrics, the reporter
\* analytics and the time trends, in this order; a run that ends with an
\* exception before that leaves the four files as it found them
C26_WrittenAfterTablesInOrder ==
  /\ pc \in {"start", "loaded", "parsed", "extracted", "dated", "table1", "table2",
              "table3", "failed", "crashed"} => WrittenSoFar({})
  /\ pc = "table4" =>
       /\ WrittenSoFar({})
       /\ vulnerability_summary = VulnerabilitySummary(df)
       /\ org_metrics = OrganizationMetrics(df)
       /\ reporter_analytics = ReporterAnalytics(df)
       /\ time_trends = TimeTrends(df)
  /\ pc = "saved1" => WrittenSoFar({"vulnerability_summary.csv"})
  /\ pc = "saved2" =>
       WrittenSoFar({"vulnerability_summary.csv", "organization_metrics.csv"})
  /\ pc = "saved3" =>
       WrittenSoFar({"vulnerability_summary.csv", "organization_metrics.csv",
                     "reporter_analytics.csv"})
  /\ pc = "done" => WrittenSoFar(FileNames)

\* a second run has written its first two tables over those of the run
\* before; the other two files still hold the tables of that run
C26_TwoOfFourWritten ==
  /\ pc = "saved2"
  /\ runs = 2
  /\ AllWritten(before.files)
  /\ files["vulnerability_summary.csv"] # before.files["vulnerability_summary.csv"]
  /\ files["organization_metrics.csv"] # before.files["organization_metrics.csv"]
  /\ files["reporter_analytics.csv"] # File(CsvReporterAnalytics(reporter_analytics))
  /\ files["time_trends.csv"] # File(CsvTimeTrends(time_trends))

\* a run has ended with the exception of the extractor after a run that
\* wrote its tables
C26_CrashedAfterSuccess ==
  /\ pc = "crashed"
  /\ runs = 2
  /\ AllWritten(files)

(***************************************************************************)
(* Properties of the dashboard (DashSpec)                                  *)
(***************************************************************************)
DigestUnusable == ~(insights.exists /\ insights.valid)
TablesLoaded == \A f \in FileNames : local[LocalOf(f)] # Null
Returned == dpc \in {"returned", "sidebar", "rendered", "stopped"}

\* C17: when the four table files have loaded and the digest is missing or
\* unreadable, load_data returns the four tables it read and the empty
\* digest, and main goes on to the pages and reports no failure
C17_MissingDigestIsEmpty ==
  (TablesLoaded /\ DigestUnusable /\ Returned) =>
    /\ \A f \in FileNames : cache[LocalOf(f)] = local[LocalOf(f)]
    /\ dpc \in {"returned", "sidebar"} =>
         \A f \in FileNames : result[LocalOf(f)] = local[LocalOf(f)]
    /\ cache.key_insights = EmptyDict
    /\ result.key_insights = EmptyDict
    /\ dpc # "stopped"
    /\ screen \in {"none"} \cup Pages
    /\ dpc = "rendered" => screen \in Pages

\* a page is shown in a session that found the tables and no digest file
C17_PageShownWithoutDigest ==
  /\ dpc = "rendered"
  /\ screen = "Overview"
  /\ ~insights.exists
  /\ result.key_insights = EmptyDict
  /\ \A f \in FileNames : result[LocalOf(f)] = DataFrame(read_table(files[f]).rows)
  /\ Len(result.vulnerability_summary.rows) >= 2

\* the tables main holds when it calls a page function are the memoized ones
C24_HandedTablesAreMemoized ==
  (cache # Null /\ dpc \in {"returned", "sidebar"}) => result = cache

\* a step of the dashboard writes no file, and no step changes a memoized
\* value
C24_MemoAndFilesKept ==
  /\ cache # Null => cache' = cache
  /\ dashVars' # dashVars => (files' = files /\ insights' = insights)

\* C24: the dashboard writes none of the files, and the value memoized by
\* the first load of the session is never changed: at every interaction the
\* page function is handed tables equal to those the first load returned,
\* also after Trends & Narrative has assigned to time_trends['year_month']
C24_ReadOnlyMemoized == []C24_HandedTablesAreMemoized /\ [][C24_MemoAndFilesKept]_vars

\* Trends & Narrative has been shown and has assigned to its time trends;
\* after an interaction main holds, for the next page, time trends with the
\* periods as they were loaded
C24_HandedAgainAfterTrends ==
  /\ dpc = "sidebar"
  /\ screen = "Trends & Narrative"
  /\ Len(result.time_trends.rows) >= 1
  /\ result.time_trends = cache.time_trends
  /\ result.time_trends.rows # YearMonthToDatetime(result.time_trends.rows)

\* the four tables of the value v are those of the four files fs
TablesOf(v, fs) ==
  \A f \in FileNames : v[LocalOf(f)] = DataFrame(read_table(fs[f]).rows)

\* C27, as stated: the four tables a load_data call returns are the four
\* tables of one pipeline run, also when the call overlaps a run that is
\* rewriting the files
C27_TablesOfOneRun ==
  (cache # Null /\ cache.vulnerability_summary # Null) =>
    \E o \in outputs : TablesOf(cache, o)

(***************************************************************************)
(* Properties of the digest (DigestSpec)                                   *)
(***************************************************************************)
\* the rows of tab with the greatest total_reports
TopRows(tab) ==
  {k \in 1..Len(tab) : \A l \in 1..Len(tab) : tab[l].total_reports <= tab[k].total_reports}

\* the digest file d names a top group of each of the three tables of the
\* run, by the name the group has there, and has their number of reports
DigestOfTables(d) ==
  /\ d.exists /\ d.valid
  /\ \E k \in TopRows(vulnerability_summary) :
       Get(d.content, "top_vulnerability", Null) = vulnerability_summary[k].weakness_name
  /\ \E k \in TopRows(org_metrics) :
       Get(d.content, "top_organization", Null) = org_metrics[k].team_name
  /\ \E k \in TopRows(reporter_analytics) :
       Get(d.content, "top_reporter", Null) = reporter_analytics[k].username
  /\ Get(d.content, "total_reports", Null)
       = PyInt(SumColumn(vulnerability_summary, "total_reports"))

\* C28, as stated: when generate_insights runs after a pipeline run that
\* ended with its last line, it writes a digest whose top_vulnerability,
\* top_organization and top_reporter are the weakness name, team name and
\* username of a group with the greatest total_reports of its table, and
\* whose total_reports is the sum of total_reports over the vulnerability
\* summary
C28_DigestNamesTopGroups ==
  [][(pc = "done" /\ gpc = "idle" /\ gpc' # "idle")
       => (gpc' = "saved" /\ DigestOfTables(insights'))]_vars
====
